---- MODULE Spec2Model ----
(***************************************************************************)
(* Request orchestration of the image-generation front end: the error     *)
(* classifier (translateApiError), the rate window and cooldown, the      *)
(* sequential batch runner (handleBatchGenerate), the variation runner    *)
(* (handleStressTestGenerate), single generation and enhancement          *)
(* (handleGenerate, handleEnhance) of src/App.tsx, and the credential     *)
(* resolution of the proxy (src/functions/api/gemini.ts).                 *)
(*                                                                         *)
(* Time is in milliseconds.  Every handler is one action per stretch of   *)
(* code between two awaits, as the single-threaded event loop runs it.    *)
(***************************************************************************)
EXTENDS Integers, Sequences, FiniteSets, TLC

VARIABLES
    now,                \* Date.now()
    nextTick,           \* when the 1 s interval of App.tsx:316 fires next
    userApiKey,         \* App.tsx:291
    error,              \* App.tsx:281 (<<>> is null)
    generatedImage,     \* App.tsx:279 (<<>> is null)
    requestTimestamps,  \* App.tsx:297
    requestCount,       \* App.tsx:298
    rateLimitCooldown,  \* App.tsx:299
    isBatchLoading,     \* App.tsx:341
    batchResults,       \* App.tsx:340
    batchProgress,      \* App.tsx:342
    batch,              \* the locals of the running handleBatchGenerate
    batchLog,           \* history: the dispatches of the current batch run
    stressTestQuantity, \* App.tsx:304
    isStressTesting,    \* App.tsx:307
    stressTestStage,    \* App.tsx:308
    stressTestResults,  \* App.tsx:306
    stress,             \* the locals of the running handleStressTestGenerate
    stressLog,          \* history: the dispatches of the current variation run
    pushLog,            \* history: every timestamp ever pushed (App.tsx:800)
    isLoading,          \* App.tsx:280
    single,             \* the locals of the running handleGenerate
    isEnhancing,        \* App.tsx:286
    enh,                \* the locals of the running handleEnhance
    enhLog,             \* history: the enhanceImage calls of the current enhancement
    proxy,              \* one request through onRequestPost
    direct              \* one call of the client that uses the SDK itself

vars ==
    << now, nextTick, userApiKey, error, generatedImage, requestTimestamps,
       requestCount, rateLimitCooldown, isBatchLoading, batchResults,
       batchProgress, batch, batchLog, stressTestQuantity, isStressTesting,
       stressTestStage, stressTestResults, stress, stressLog, pushLog,
       isLoading, single, isEnhancing, enh, enhLog, proxy, direct >>

(***************************************************************************)
(* Strings.  A string is a sequence of tokens; its text is the tokens      *)
(* joined with nothing in between.  A token stands for a piece of text    *)
(* that the program only ever tests as a whole.  The Vietnamese texts are *)
(* written without their diacritics.                                      *)
(***************************************************************************)

\* "<PARA>" is the blank line "\n\n" between the paragraphs of a message.
PARA == "<PARA>"

\* Whether the text of one token contains `needle`: "MODEL_ERROR: " (with the
\* space) contains "MODEL_ERROR:", and "{json}", which stands for the text
\* {"error":{"message":"json message"}}, contains "{".
TokenIncludes(tok, needle) ==
    \/ tok = needle
    \/ tok = "MODEL_ERROR: " /\ needle = "MODEL_ERROR:"
    \/ tok = "{json}" /\ needle = "{"

\* String.prototype.includes
includes(s, needle) ==
    \E i \in 1..Len(s) : TokenIncludes(s[i], needle)

\* String.prototype.toLowerCase, on the tokens whose lower case the program
\* searches for; no other token's lower case contains a searched keyword.
TokenLower(tok) ==
    CASE tok = "I'm Sorry" -> "i'm sorry"
      [] tok = "HET HAN NGACH" -> "het han ngach"
      [] OTHER -> tok

toLowerCase(s) ==
    [i \in 1..Len(s) |-> TokenLower(s[i])]

\* The positions of the tokens equal to `sep`.
SepPositions(s, sep) ==
    {i \in 1..Len(s) : s[i] = sep}

MinOf(S) ==
    CHOOSE x \in S : \A y \in S : x <= y

\* s.split(sep)[0]
SplitFirst(s, sep) ==
    IF SepPositions(s, sep) = {} THEN s
    ELSE SubSeq(s, 1, MinOf(SepPositions(s, sep)) - 1)

\* s.split(sep)[1]: the text between the first and the second `sep`;
\* undefined when `s` holds no `sep`.
SplitSecond(s, sep) ==
    LET ps == SepPositions(s, sep) IN
    IF ps = {} THEN [defined |-> FALSE, text |-> <<>>]
    ELSE LET p1 == MinOf(ps)
             later == ps \ {p1}
             stop == IF later = {} THEN Len(s) ELSE MinOf(later) - 1
         IN  [defined |-> TRUE, text |-> SubSeq(s, p1 + 1, stop)]

(***************************************************************************)
(* translateApiError, App.tsx:24-94.  An error value is                    *)
(* [isError |-> error instanceof Error, message |-> error.message].        *)
(* The result is [threw |-> FALSE, text |-> the returned message], or      *)
(* [threw |-> TRUE, ...] when the function itself throws.                  *)
(***************************************************************************)

MsgNotAnError == << "Da xay ra mot loi khong xac dinh. Vui long thu lai." >>
MsgInvalidKey ==
    << "API Key ban cung cap khong hop le hoac da het han.", PARA,
       "Cach khac phuc: kiem tra lai Key, tao Key moi." >>
MsgQuotaUserKey ==
    << "API Key cua ban da ", "het han ngach", " su dung.", PARA,
       "Cach khac phuc: kiem tra han ngach, thu lai sau." >>
MsgQuotaShared ==
    << "Rat tiec, luot su dung mien phi cua trang web da het do luu luong truy cap cao.",
       PARA, "De tiep tuc, vui long su dung API Key mien phi cua rieng ban." >>
MsgSafety ==
    << "Yeu cau cua ban da bi chan vi ly do an toan.", PARA,
       "Cach khac phuc: su dung mot buc anh khac." >>
MsgRefusal ==
    << "Mo hinh AI da tu choi yeu cau cua ban.", PARA,
       "Cach khac phuc: thu dung mot buc anh ro net hon." >>
MsgModelPrefix == << "Loi tu mo hinh AI: " >>
MsgNoApiKey == << "Khong tim thay API Key mac dinh." >>
MsgNetwork ==
    << "Khong the ket noi den may chu.", PARA,
       "Neu ban dang dung mang cong ty hoac VPN, hay thu mot mang khac." >>
MsgJsonPrefix == << "Da co loi xay ra: " >>
MsgUnknownPrefix == << "Da xay ra loi khong xac dinh: " >>
MsgUnknownSuffix == << ". Vui long thu lai sau." >>

refusalKeywords ==
    { "cannot fulfill", "i'm sorry", "unable to", "cannot generate", "i cannot",
      "as an ai", "my purpose is to be", "my safety guidelines",
      "violates my safety policies" }

Returned(text) == [threw |-> FALSE, text |-> text]
Thrown == [threw |-> TRUE, text |-> <<>>]

\* App.tsx:78-89: JSON.parse of the text from the first "{" on; it parses, and
\* has error.message, exactly when that text is the one token "{json}".
ParsedErrorMessage(message) ==
    LET ps == {i \in 1..Len(message) : TokenIncludes(message[i], "{")} IN
    IF ps = {} THEN [found |-> FALSE, text |-> <<>>]
    ELSE LET p == MinOf(ps) IN
         IF p = Len(message) /\ message[p] = "{json}"
         THEN [found |-> TRUE, text |-> << "json message" >>]
         ELSE [found |-> FALSE, text |-> <<>>]

\* App.tsx:51-65
TranslateModelError(message) ==
    LET modelResponse == SplitSecond(message, "MODEL_ERROR: ") IN
    IF ~modelResponse.defined THEN Thrown
    ELSE IF \E k \in refusalKeywords : includes(toLowerCase(modelResponse.text), k)
         THEN Returned(MsgRefusal)
         ELSE Returned(MsgModelPrefix \o modelResponse.text)

\* A faulty classifier that looks for the quota markers before the markers of
\* an invalid key.
translateApiErrorQuotaFirst(err, isUserKey) ==
    IF ~err.isError THEN Returned(MsgNotAnError)
    ELSE LET message == err.message IN
    IF includes(message, "RESOURCE_EXHAUSTED") \/ includes(message, "429")
    THEN (IF isUserKey THEN Returned(MsgQuotaUserKey) ELSE Returned(MsgQuotaShared))
    ELSE IF includes(message, "API key not valid") \/ includes(message, "PERMISSION_DENIED")
    THEN Returned(MsgInvalidKey)
    ELSE IF includes(message, "SAFETY")
    THEN Returned(MsgSafety)
    ELSE IF includes(message, "MODEL_ERROR:")
    THEN TranslateModelError(message)
    ELSE IF includes(message, "NO_API_KEY")
    THEN Returned(MsgNoApiKey)
    ELSE IF includes(message, "Failed to fetch") \/ includes(message, "NETWORK_ERROR")
    THEN Returned(MsgNetwork)
    ELSE IF ParsedErrorMessage(message).found
    THEN Returned(MsgJsonPrefix \o ParsedErrorMessage(message).text)
    ELSE Returned(MsgUnknownPrefix \o message \o MsgUnknownSuffix)

\* App.tsx:24-94
translateApiError(err, isUserKey) ==
    IF ~err.isError THEN Returned(MsgNotAnError)
    ELSE LET message == err.message IN
    IF includes(message, "API key not valid") \/ includes(message, "PERMISSION_DENIED")
    THEN Returned(MsgInvalidKey)
    ELSE IF includes(message, "RESOURCE_EXHAUSTED") \/ includes(message, "429")
    THEN (IF isUserKey THEN Returned(MsgQuotaUserKey) ELSE Returned(MsgQuotaShared))
    ELSE IF includes(message, "SAFETY")
    THEN Returned(MsgSafety)
    ELSE IF includes(message, "MODEL_ERROR:")
    THEN TranslateModelError(message)
    ELSE IF includes(message, "NO_API_KEY")
    THEN Returned(MsgNoApiKey)
    ELSE IF includes(message, "Failed to fetch") \/ includes(message, "NETWORK_ERROR")
    THEN Returned(MsgNetwork)
    ELSE IF ParsedErrorMessage(message).found
    THEN Returned(MsgJsonPrefix \o ParsedErrorMessage(message).text)
    ELSE Returned(MsgUnknownPrefix \o message \o MsgUnknownSuffix)

\* The message is one of the two quota-exhaustion messages of App.tsx:40,42.
IsQuotaMessage(text) ==
    text \in {MsgQuotaUserKey, MsgQuotaShared}

\* App.tsx:654
IsQuotaError(err) ==
    err.isError /\ (includes(err.message, "RESOURCE_EXHAUSTED") \/ includes(err.message, "429"))

\* App.tsx:806
TriggersCooldown(errorMessage) ==
    includes(toLowerCase(errorMessage), "het han ngach") \/ includes(errorMessage, "429")

(***************************************************************************)
(* Credentials.  A key is a sequence of characters; Null is null.          *)
(***************************************************************************)

Null == << "<null>" >>

\* JavaScript truthiness of a string-or-null: !!userApiKey
Truthy(key) == key # Null /\ key # <<>>

IsSpace(c) == c = " "

RECURSIVE TrimStart(_)
TrimStart(s) ==
    IF s # <<>> /\ IsSpace(Head(s)) THEN TrimStart(Tail(s)) ELSE s

RECURSIVE TrimEnd(_)
TrimEnd(s) ==
    IF s # <<>> /\ IsSpace(s[Len(s)]) THEN TrimEnd(SubSeq(s, 1, Len(s) - 1)) ELSE s

\* String.prototype.trim
trim(s) == TrimEnd(TrimStart(s))

(***************************************************************************)
(* Bounds of the model and constants of the program.                       *)
(***************************************************************************)

\* Bounds.
MaxTime == 3400          \* the clock stops here in Spec
EnhanceHorizon == 5000   \* the clock stops here in SpecEnhance
MaxBatchSlots == 2       \* image slots of the batch form
MaxQuantity == 2         \* largest quantity of a variation run
MaxLongBatch == 201      \* largest batch of SpecProgress
LongHorizon == 400000    \* the clock stops here in SpecProgress
RateHorizon == 70000     \* the clock stops here in SpecRate

\* Constants of the program.
TickIntervalMs == 1000   \* App.tsx:322
WindowMs == 60000        \* App.tsx:318
QuotaPerWindow == 60     \* App.tsx:1442
CooldownSeconds == 60    \* App.tsx:807
BatchDelayMs == 1100     \* App.tsx:645
WorkerDelayMs == 1100    \* App.tsx:797
EnhanceDelayMs == 1100   \* App.tsx:500
SettleDelayMs == 500     \* App.tsx:435, 508
CONCURRENCY_LIMIT == 1   \* App.tsx:785
MinQuantity == 1         \* App.tsx:771
QuantityLimit == 60      \* App.tsx:771

\* How long a call to the image generation client may take.
CallDurations == {400, 900}

\* The credentials the user may have saved.
SavedKeys == {Null, << "k" >>}

(***************************************************************************)
(* What a call to the client (generateTrendImage, enhanceImage) ends in:   *)
(* an image, or a thrown value.                                            *)
(***************************************************************************)

Err(message) == [isError |-> TRUE, message |-> message]

\* A rejection with a value that is no Error (geminiService.ts:22 rejects with
\* the FileReader's event).
NotAnError == [isError |-> FALSE, message |-> <<>>]

Success == [ok |-> TRUE, err |-> NotAnError]
Failure(e) == [ok |-> FALSE, err |-> e]

\* The values a client call is let throw in the model.
ClientErrors ==
    { NotAnError,
      Err(<< "API key not valid" >>),
      Err(<< "RESOURCE_EXHAUSTED" >>),
      Err(<< "API key not valid", "429" >>),
      Err(<< "SAFETY" >>),
      Err(<< "MODEL_ERROR: ", "text" >>),
      Err(<< "MODEL_ERROR: ", "I'm Sorry" >>),
      Err(<< "MODEL_ERROR: ", "HET HAN NGACH" >>),
      Err(<< "MODEL_ERROR:", "text" >>),
      Err(<< "NO_API_KEY" >>),
      Err(<< "NETWORK_ERROR" >>),
      Err(<< "text", "{json}" >>),
      Err(<< "text" >>) }

Responses == {Success} \cup {Failure(e) : e \in ClientErrors}

(***************************************************************************)
(* The clock and the rate window.                                          *)
(***************************************************************************)

timeVars == << now, nextTick >>
keyVars == << userApiKey >>
uiVars == << error, generatedImage >>
rateVars == << requestTimestamps, requestCount, rateLimitCooldown, pushLog >>
batchVars == << isBatchLoading, batchResults, batchProgress, batch, batchLog >>
stressVars ==
    << stressTestQuantity, isStressTesting, stressTestStage, stressTestResults,
       stress, stressLog >>
singleVars == << isLoading, single >>
enhVars == << isEnhancing, enh, enhLog >>
proxyVars == << proxy, direct >>

\* The timers and calls in flight, by the time each is due.
Dues ==
    {nextTick}
    \cup (IF batch.pc \in {"delay", "call"} THEN {batch.due} ELSE {})
    \cup {stress.worker[w].due : w \in {v \in DOMAIN stress.worker :
                                         stress.worker[v].pc \in {"delay", "call"}}}
    \cup (IF single.pc \in {"call", "settle"} THEN {single.due} ELSE {})
    \cup (IF enh.pc \in {"call1", "delay", "call2", "settle"} THEN {enh.due} ELSE {})

\* Time passes to the next instant at which something is due, or at which the
\* user may act (userTimes); nothing that is due is passed over.
Advance(limit, userTimes) ==
    LET instants == Dues \cup {t \in userTimes : t > now} IN
    /\ \A d \in Dues : d > now
    /\ MinOf(instants) <= limit
    /\ now' = MinOf(instants)
    /\ UNCHANGED << nextTick, keyVars, uiVars, rateVars, batchVars, stressVars,
                    singleVars, enhVars, proxyVars >>

\* A faulty pruning that keeps a timestamp that is exactly 60 s old.
PruneWindowInclusive(timestamps, t) ==
    SelectSeq(timestamps, LAMBDA x : x >= t - WindowMs)

\* A faulty pruning that keeps every timestamp.
PruneWindowKeepAll(timestamps, t) == timestamps

\* App.tsx:319
PruneWindow(timestamps, t) ==
    SelectSeq(timestamps, LAMBDA x : x > t - WindowMs)

\* A faulty countdown that goes below zero.
CooldownTickNoFloor(prev) == prev - 1

\* App.tsx:321
CooldownTick(prev) ==
    IF prev > 0 THEN prev - 1 ELSE 0

\* The interval callback, App.tsx:316-322.
Tick ==
    /\ nextTick <= now
    /\ requestTimestamps' = PruneWindow(requestTimestamps, now)
    /\ requestCount' = Len(requestTimestamps')
    /\ rateLimitCooldown' = CooldownTick(rateLimitCooldown)
    /\ nextTick' = nextTick + TickIntervalMs
    /\ UNCHANGED << now, pushLog, keyVars, uiVars, batchVars, stressVars,
                    singleVars, enhVars, proxyVars >>

\* The quota shown, App.tsx:1442.
RemainingShown == QuotaPerWindow - requestCount

(***************************************************************************)
(* The sequential batch runner, handleBatchGenerate, App.tsx:607-671.      *)
(***************************************************************************)

\* last is what the latest call that came back ended in.
BatchIdle ==
    [pc |-> "idle", i |-> 0, tasks |-> <<>>, key |-> Null, due |-> 0, since |-> 0,
     last |-> Success]

RECURSIVE SortedSeq(_)
SortedSeq(S) ==
    IF S = {} THEN <<>> ELSE << MinOf(S) >> \o SortedSeq(S \ {MinOf(S)})

\* validTasksWithIds, App.tsx:614-629: the task ids are the positions of the
\* filled slots (of the filled pairs for the polaroid style), in rising order.
TaskLists ==
    {SortedSeq(S) : S \in (SUBSET (0..(MaxBatchSlots - 1))) \ {{}}}

\* A form with every slot filled.
FullTaskList(n) == [k \in 1..n |-> k - 1]

\* The batch sizes of SpecProgress: around the size from which the rounded
\* percentage reaches 100 before the last task.
LongTaskLists ==
    {FullTaskList(n) : n \in {MaxLongBatch - 2, MaxLongBatch}}

\* App.tsx:638
LoadingResult(taskId) ==
    [taskId |-> taskId, status |-> "loading", imageUrl |-> <<>>, error |-> <<>>]

\* App.tsx:649-651
MarkSuccess(results, taskId, imageUrl) ==
    [k \in 1..Len(results) |->
        IF results[k].taskId = taskId
        THEN [results[k] EXCEPT !.status = "success", !.imageUrl = imageUrl]
        ELSE results[k]]

\* A faulty update that marks every result as failed, the ended ones too.
MarkErrorAll(results, taskId, errorMessage) ==
    [k \in 1..Len(results) |->
        [results[k] EXCEPT !.status = "error", !.error = errorMessage]]

\* App.tsx:663-665
MarkError(results, taskId, errorMessage) ==
    [k \in 1..Len(results) |->
        IF results[k].taskId = taskId
        THEN [results[k] EXCEPT !.status = "error", !.error = errorMessage]
        ELSE results[k]]

\* Math.round((done / total) * 100), App.tsx:667: to the nearest integer, a
\* half rounding up.
RoundPercent(done, total) ==
    (200 * done + total) \div (2 * total)

\* A faulty loop head that waits before no task.
BatchWakeAtOnce(i, t) == t

\* App.tsx:645: the task at index i > 0 is dispatched after the delay.
BatchWake(i, t) ==
    IF i > 0 THEN t + BatchDelayMs ELSE t

\* A faulty dispatch that sends the first task of the list every time.
BatchDispatchFirstAgain(i, tasks, d) ==
    /\ batch' = [batch EXCEPT !.pc = "call", !.due = now + d]
    /\ batchLog' = Append(batchLog, [taskId |-> tasks[1], at |-> now,
                                     waited |-> now - batch.since])

\* The call of generateTrendImage for the task at index i, App.tsx:647.
BatchDispatch(i, tasks, d) ==
    /\ batch' = [batch EXCEPT !.pc = "call", !.due = now + d]
    /\ batchLog' = Append(batchLog, [taskId |-> tasks[i + 1], at |-> now,
                                     waited |-> now - batch.since])

\* App.tsx:636-647, up to the first await.
handleBatchGenerate(taskLists, durations) ==
    /\ batchResults = <<>>
    /\ ~isBatchLoading
    /\ \E tasks \in taskLists, d \in durations :
        /\ isBatchLoading' = TRUE
        /\ error' = <<>>
        /\ batchResults' = [k \in 1..Len(tasks) |-> LoadingResult(tasks[k])]
        /\ batchProgress' = 0
        /\ batch' = [pc |-> "call", i |-> 0, tasks |-> tasks, key |-> userApiKey,
                     due |-> BatchWake(0, now) + d, since |-> now,
                     last |-> Success]
        /\ batchLog' = << [taskId |-> tasks[1], at |-> now, waited |-> 0] >>
    /\ UNCHANGED << timeVars, keyVars, generatedImage, rateVars, stressVars,
                    singleVars, enhVars, proxyVars >>

\* App.tsx:645-647: the delay is over, the next task is dispatched.
BatchDelayElapsed(durations) ==
    /\ batch.pc = "delay"
    /\ batch.due <= now
    /\ \E d \in durations :
        BatchDispatch(batch.i, batch.tasks, d)
    /\ UNCHANGED << timeVars, keyVars, uiVars, rateVars, isBatchLoading,
                    batchResults, batchProgress, stressVars, singleVars, enhVars,
                    proxyVars >>

\* App.tsx:667-670 and the loop head: progress, then the next task or the end.
BatchNext(r) ==
    /\ batchProgress' = RoundPercent(batch.i + 1, Len(batch.tasks))
    /\ IF batch.i + 1 < Len(batch.tasks)
       THEN /\ batch' = [batch EXCEPT !.pc = "delay", !.i = batch.i + 1,
                                      !.due = BatchWake(batch.i + 1, now),
                                      !.since = now, !.last = r]
            /\ UNCHANGED isBatchLoading
       ELSE /\ batch' = [batch EXCEPT !.pc = "done", !.last = r]
            /\ isBatchLoading' = FALSE

\* A faulty rule under which no failure ends the run.
AbortsRunNever(err, key) == FALSE

\* App.tsx:654-656: the failure that ends the whole run.
AbortsRun(err, key) ==
    IsQuotaError(err) /\ ~Truthy(key)

\* App.tsx:652-666: the catch block.
BatchCatch(err) ==
    LET translated == translateApiError(err, Truthy(batch.key)) IN
    IF translated.threw
    THEN \* the exception leaves handleBatchGenerate
         /\ batch' = [batch EXCEPT !.pc = "crashed", !.last = Failure(err)]
         /\ UNCHANGED << error, isBatchLoading, batchResults, batchProgress >>
    ELSE IF AbortsRun(err, batch.key)
    THEN /\ error' = translated.text
         /\ isBatchLoading' = FALSE
         /\ batchResults' = <<>>
         /\ batch' = [batch EXCEPT !.pc = "aborted", !.last = Failure(err)]
         /\ UNCHANGED batchProgress
    ELSE /\ batchResults' = MarkError(batchResults, batch.tasks[batch.i + 1],
                                      translated.text)
         /\ BatchNext(Failure(err))
         /\ UNCHANGED error

\* The call of generateTrendImage returns or throws, App.tsx:647-668.
BatchCallReturns(responses) ==
    /\ batch.pc = "call"
    /\ batch.due <= now
    /\ \E r \in responses :
        IF r.ok
        THEN /\ batchResults' = MarkSuccess(batchResults, batch.tasks[batch.i + 1],
                                            << Len(batchLog) >>)
             /\ BatchNext(r)
             /\ UNCHANGED error
        ELSE BatchCatch(r.err)
    /\ UNCHANGED << timeVars, keyVars, generatedImage, rateVars, batchLog,
                    stressVars, singleVars, enhVars, proxyVars >>

\* App.tsx:677-679
handleGoBackToBatchEditing ==
    /\ batchResults # <<>>
    /\ ~isBatchLoading
    /\ batchResults' = <<>>
    /\ UNCHANGED << timeVars, keyVars, uiVars, rateVars, isBatchLoading,
                    batchProgress, batch, batchLog, stressVars, singleVars,
                    enhVars, proxyVars >>

(***************************************************************************)
(* The variation runner, handleStressTestGenerate, App.tsx:755-824.        *)
(* stressTestQuantity is <<>> for the empty input '' and << n >> for the   *)
(* number n.                                                               *)
(***************************************************************************)

Workers == 1..CONCURRENCY_LIMIT

WorkerIdle == [pc |-> "idle", index |-> 0, call |-> 0, due |-> 0, since |-> 0]

\* last is what the latest call that came back ended in, for which item, and
\* the tick that was due next when it came back.
StressIdle ==
    [pc |-> "idle", n |-> 0, queue |-> 0, key |-> Null,
     worker |-> [w \in Workers |-> WorkerIdle],
     last |-> [index |-> 0, r |-> Success, tick |-> 0]]

\* App.tsx:22
clamp(value, min, max) ==
    IF value < min THEN min ELSE IF value > max THEN max ELSE value

\* Number(stressTestQuantity): Number('') is 0.
NumberOf(q) == IF q = <<>> THEN 0 ELSE q[1]

\* App.tsx:771: Number(stressTestQuantity) || 1, clamped.
EffectiveQuantity(q) ==
    clamp(IF NumberOf(q) = 0 THEN 1 ELSE NumberOf(q), MinQuantity, QuantityLimit)

\* The values the quantity input is given in the model.
QuantityInputs == {<<>>} \cup {<< n >> : n \in 0..MaxQuantity}

\* App.tsx:744-753
handleStressTestQuantityChange(values) ==
    /\ \E value \in values :
        stressTestQuantity' =
            IF value = <<>> THEN <<>>
            ELSE << clamp(NumberOf(value), MinQuantity, QuantityLimit) >>
    /\ UNCHANGED << timeVars, keyVars, uiVars, rateVars, batchVars,
                    isStressTesting, stressTestStage, stressTestResults, stress,
                    stressLog, singleVars, enhVars, proxyVars >>

\* App.tsx:793: the position of the item just taken off the queue.
ItemIndex(n, queueLeft) == n - queueLeft - 1

\* App.tsx:789-797: worker w at the head of its loop at time t takes the next
\* item and starts the delay, or leaves the loop when the queue is empty.
WorkerTake(st, w, t) ==
    IF st.queue > 0
    THEN [st EXCEPT !.queue = st.queue - 1,
                    !.worker[w] = [pc |-> "delay",
                                   index |-> ItemIndex(st.n, st.queue - 1),
                                   call |-> 0,
                                   due |-> t + WorkerDelayMs,
                                   since |-> t]]
    ELSE [st EXCEPT !.worker[w].pc = "exit"]

\* App.tsx:815: the workers are started one after the other.
RECURSIVE StartWorkers(_, _, _)
StartWorkers(st, w, t) ==
    IF w \notin DOMAIN st.worker THEN st
    ELSE StartWorkers(WorkerTake(st, w, t), w + 1, t)

AllExited(st) ==
    \A w \in DOMAIN st.worker : st.worker[w].pc = "exit"

\* App.tsx:778-782
LoadingItem(i) ==
    [id |-> i, status |-> "loading", imageUrl |-> <<>>, error |-> <<>>]

\* A faulty update that writes the image to the first result still loading.
MarkFirstLoadingSuccess(results, index, imageUrl) ==
    [k \in 1..Len(results) |->
        IF /\ results[k].status = "loading"
           /\ \A j \in 1..(k - 1) : results[j].status # "loading"
        THEN [results[k] EXCEPT !.status = "success", !.imageUrl = imageUrl]
        ELSE results[k]]

\* App.tsx:803
MarkItemSuccess(results, index, imageUrl) ==
    [k \in 1..Len(results) |->
        IF results[k].id = index
        THEN [results[k] EXCEPT !.status = "success", !.imageUrl = imageUrl]
        ELSE results[k]]

\* App.tsx:809
MarkItemError(results, index, errorMessage) ==
    [k \in 1..Len(results) |->
        IF results[k].id = index
        THEN [results[k] EXCEPT !.status = "error",
                                !.error = SplitFirst(errorMessage, PARA)]
        ELSE results[k]]

\* App.tsx:771-797 and 815, up to the first await of every worker, with a
\* pool of limit workers.
StressStart(limit) ==
    /\ ~isStressTesting
    /\ rateLimitCooldown = 0
    /\ LET quantity == EffectiveQuantity(stressTestQuantity) IN
        /\ isStressTesting' = TRUE
        /\ error' = <<>>
        /\ stressTestStage' = "generating_images"
        /\ stressTestResults' = [k \in 1..quantity |-> LoadingItem(k - 1)]
        /\ stress' = StartWorkers([pc |-> "running", n |-> quantity,
                                   queue |-> quantity, key |-> userApiKey,
                                   worker |-> [w \in 1..limit |-> WorkerIdle],
                                   last |-> [index |-> 0, r |-> Success,
                                             tick |-> 0]],
                                  1, now)
        /\ stressLog' = <<>>
    /\ UNCHANGED << timeVars, keyVars, generatedImage, rateVars, batchVars,
                    stressTestQuantity, singleVars, enhVars, proxyVars >>

\* App.tsx:755-824 with the pool of App.tsx:785.
handleStressTestGenerate == StressStart(CONCURRENCY_LIMIT)

\* App.tsx:797-802: the delay is over; the timestamp is recorded and
\* generateTrendImage is called.
WorkerDelayElapsed(w, durations) ==
    /\ w \in DOMAIN stress.worker
    /\ stress.worker[w].pc = "delay"
    /\ stress.worker[w].due <= now
    /\ requestTimestamps' = Append(requestTimestamps, now)
    /\ pushLog' = Append(pushLog, now)
    /\ stressLog' = Append(stressLog, [index |-> stress.worker[w].index,
                                       at |-> now,
                                       waited |-> now - stress.worker[w].since])
    /\ \E d \in durations :
        stress' = [stress EXCEPT !.worker[w].pc = "call",
                                 !.worker[w].call = Len(stressLog) + 1,
                                 !.worker[w].due = now + d]
    /\ UNCHANGED << timeVars, keyVars, uiVars, requestCount, rateLimitCooldown,
                    batchVars, stressTestQuantity, isStressTesting,
                    stressTestStage, stressTestResults, singleVars, enhVars,
                    proxyVars >>

\* App.tsx:816-823: Promise.all settles; the run is over.
StressSettle(st, outcome) ==
    /\ stress' = [st EXCEPT !.pc = outcome]
    /\ isStressTesting' = FALSE
    /\ stressTestStage' = "idle"

\* What the TypeError thrown inside translateApiError is translated to at
\* App.tsx:818.
MsgBatchFailure ==
    << "Da xay ra loi trong qua trinh xu ly hang loat: " >>
    \o translateApiError(Err(<< "Cannot read properties of undefined" >>), FALSE).text

\* The worker is back at the head of its loop, App.tsx:789.
WorkerLoop(w, r) ==
    LET st == WorkerTake([stress EXCEPT !.last = [index |-> stress.worker[w].index,
                                                  r |-> r,
                                                  tick |-> nextTick]], w, now) IN
    IF AllExited(st) /\ st.pc = "running"
    THEN StressSettle(st, "done")
    ELSE /\ stress' = st
         /\ UNCHANGED << isStressTesting, stressTestStage >>

\* App.tsx:804-810: the catch block of the worker.
WorkerCatch(w, err) ==
    LET translated == translateApiError(err, Truthy(stress.key)) IN
    IF translated.threw
    THEN \* the worker's promise rejects: App.tsx:817-823
         LET st == [stress EXCEPT !.worker[w].pc = "crashed",
                                  !.last = [index |-> stress.worker[w].index,
                                            r |-> Failure(err),
                                            tick |-> nextTick]] IN
         /\ IF stress.pc = "running"
            THEN /\ StressSettle(st, "failed")
                 /\ error' = MsgBatchFailure
            ELSE /\ stress' = st
                 /\ UNCHANGED << isStressTesting, stressTestStage, error >>
         /\ UNCHANGED << rateLimitCooldown, stressTestResults >>
    ELSE /\ rateLimitCooldown' =
                IF TriggersCooldown(translated.text) THEN CooldownSeconds
                ELSE rateLimitCooldown
         /\ stressTestResults' = MarkItemError(stressTestResults,
                                               stress.worker[w].index,
                                               translated.text)
         /\ WorkerLoop(w, Failure(err))
         /\ UNCHANGED error

\* The call of generateTrendImage returns or throws, App.tsx:802-811.
WorkerCallReturns(w, responses) ==
    /\ w \in DOMAIN stress.worker
    /\ stress.worker[w].pc = "call"
    /\ stress.worker[w].due <= now
    /\ \E r \in responses :
        IF r.ok
        THEN /\ stressTestResults' = MarkItemSuccess(stressTestResults,
                                                     stress.worker[w].index,
                                                     << stress.worker[w].call >>)
             /\ WorkerLoop(w, r)
             /\ UNCHANGED << error, rateLimitCooldown >>
        ELSE WorkerCatch(w, r.err)
    /\ UNCHANGED << timeVars, keyVars, generatedImage, requestTimestamps,
                    requestCount, pushLog, batchVars, stressTestQuantity,
                    stressLog, singleVars, enhVars, proxyVars >>

(***************************************************************************)
(* Single generation and enhancement, App.tsx:400-444 and 475-527.         *)
(* An image is a sequence of numbers; <<>> is null.                        *)
(***************************************************************************)

\* last is what the call of the latest run ended in.
SingleIdle ==
    [pc |-> "idle", key |-> Null, due |-> 0, result |-> <<>>, last |-> Success]

EnhIdle ==
    [pc |-> "idle", quality |-> "HD", key |-> Null, due |-> 0, since |-> 0,
     result1 |-> <<>>, result |-> <<>>]

\* The image the single generation returns.
GeneratedOnce == << 1 >>

\* The image an enhancement call returns for `image`: the same image with one
\* more enhancement pass.
Enhanced(image) == Append(image, 0)

\* handleApiError, App.tsx:369-372, in a handler that captured `key`.
handleApiError(err, key) ==
    translateApiError(err, Truthy(key))

\* App.tsx:416-432, up to the await.
handleGenerate ==
    /\ generatedImage = <<>>
    /\ ~isLoading
    /\ isLoading' = TRUE
    /\ error' = <<>>
    /\ generatedImage' = <<>>
    /\ \E d \in CallDurations :
        single' = [pc |-> "call", key |-> userApiKey, due |-> now + d,
                   result |-> <<>>, last |-> Success]
    /\ UNCHANGED << timeVars, keyVars, rateVars, batchVars, stressVars, enhVars,
                    proxyVars >>

\* App.tsx:432-443
SingleCallReturns(responses) ==
    /\ single.pc = "call"
    /\ single.due <= now
    /\ \E r \in responses :
        IF r.ok
        THEN /\ single' = [single EXCEPT !.pc = "settle",
                                         !.due = now + SettleDelayMs,
                                         !.result = GeneratedOnce,
                                         !.last = r]
             /\ UNCHANGED << error, isLoading >>
        ELSE LET translated == handleApiError(r.err, single.key) IN
             IF translated.threw
             THEN /\ single' = [single EXCEPT !.pc = "crashed", !.last = r]
                  /\ UNCHANGED << error, isLoading >>
             ELSE /\ error' = translated.text
                  /\ isLoading' = FALSE
                  /\ single' = [single EXCEPT !.pc = "failed", !.last = r]
    /\ UNCHANGED << timeVars, keyVars, generatedImage, rateVars, batchVars,
                    stressVars, enhVars, proxyVars >>

\* App.tsx:435-438
SingleSettle ==
    /\ single.pc = "settle"
    /\ single.due <= now
    /\ generatedImage' = single.result
    /\ isLoading' = FALSE
    /\ single' = [single EXCEPT !.pc = "done"]
    /\ UNCHANGED << timeVars, keyVars, error, rateVars, batchVars, stressVars,
                    enhVars, proxyVars >>

\* App.tsx:519-527
handleGoBackToEditing ==
    /\ generatedImage # <<>>
    /\ ~isLoading
    /\ ~isEnhancing
    /\ generatedImage' = <<>>
    /\ error' = <<>>
    /\ isEnhancing' = FALSE
    /\ UNCHANGED << timeVars, keyVars, rateVars, batchVars, stressVars,
                    singleVars, enh, enhLog, proxyVars >>

\* App.tsx:498, 503: the first call of an enhancement follows the handler's
\* entry at once.
EnhFirstWake(t) == t

\* App.tsx:500-501: the second call of a 4K enhancement is made after the pause.
EnhSecondWake(t) == t + EnhanceDelayMs

\* A faulty second call that is given the image the enhancement started from.
EnhSecondInputOriginal(e) == e.result

\* App.tsx:501: what the second call of a 4K enhancement is given.
EnhSecondInput(e) == e.result1

\* App.tsx:476-498/503, up to the first await.
handleEnhance(qualities) ==
    /\ generatedImage # <<>>
    /\ ~isLoading
    /\ ~isEnhancing
    /\ isEnhancing' = TRUE
    /\ error' = <<>>
    /\ \E quality \in qualities, d \in CallDurations :
        enh' = [pc |-> IF quality = "4K" THEN "call1" ELSE "call2",
                quality |-> quality, key |-> userApiKey,
                due |-> EnhFirstWake(now) + d, since |-> now,
                result1 |-> <<>>, result |-> generatedImage]
    /\ enhLog' = << [input |-> generatedImage, output |-> <<>>,
                     at |-> EnhFirstWake(now), waited |-> EnhFirstWake(now) - now] >>
    /\ UNCHANGED << timeVars, keyVars, generatedImage, rateVars, batchVars,
                    stressVars, singleVars, proxyVars >>

\* App.tsx:512-516: the catch block.
EnhCatch(err) ==
    LET translated == handleApiError(err, enh.key) IN
    IF translated.threw
    THEN /\ enh' = [enh EXCEPT !.pc = "crashed"]
         /\ UNCHANGED << error, isEnhancing >>
    ELSE /\ error' = translated.text
         /\ isEnhancing' = FALSE
         /\ enh' = [enh EXCEPT !.pc = "failed"]

\* A call of enhanceImage returns or throws, App.tsx:498-516.
EnhCallReturns(responses) ==
    /\ enh.pc \in {"call1", "call2"}
    /\ enh.due <= now
    /\ \E r \in responses :
        IF r.ok
        THEN LET output == Enhanced(enhLog[Len(enhLog)].input) IN
             /\ enhLog' = [enhLog EXCEPT ![Len(enhLog)].output = output]
             /\ IF enh.pc = "call1"
                THEN enh' = [enh EXCEPT !.pc = "delay", !.result1 = output,
                                        !.due = EnhSecondWake(now), !.since = now]
                ELSE enh' = [enh EXCEPT !.pc = "settle", !.result = output,
                                        !.due = now + SettleDelayMs]
             /\ UNCHANGED << error, isEnhancing >>
        ELSE /\ EnhCatch(r.err)
             /\ UNCHANGED enhLog
    /\ UNCHANGED << timeVars, keyVars, generatedImage, rateVars, batchVars,
                    stressVars, singleVars, proxyVars >>

\* App.tsx:500-501: the pause is over, the second call is made.
EnhDelayElapsed ==
    /\ enh.pc = "delay"
    /\ enh.due <= now
    /\ enhLog' = Append(enhLog, [input |-> EnhSecondInput(enh), output |-> <<>>,
                                 at |-> now, waited |-> now - enh.since])
    /\ \E d \in CallDurations :
        enh' = [enh EXCEPT !.pc = "call2", !.due = now + d]
    /\ UNCHANGED << timeVars, keyVars, uiVars, rateVars, batchVars, stressVars,
                    singleVars, isEnhancing, proxyVars >>

\* App.tsx:508-511
EnhSettle ==
    /\ enh.pc = "settle"
    /\ enh.due <= now
    /\ generatedImage' = enh.result
    /\ isEnhancing' = FALSE
    /\ enh' = [enh EXCEPT !.pc = "done"]
    /\ UNCHANGED << timeVars, keyVars, error, rateVars, batchVars, stressVars,
                    singleVars, enhLog, proxyVars >>

(***************************************************************************)
(* The saved credential, App.tsx:970-992.                                  *)
(***************************************************************************)

\* App.tsx:970-985 with validateApiKey, geminiService.ts:76-90: a key that is
\* blank after trimming is refused; one the service accepts is stored as typed.
handleSaveApiKey(keys) ==
    /\ \E k \in keys :
        /\ k # Null
        /\ trim(k) # <<>>
        /\ userApiKey' = k
    /\ error' = <<>>
    /\ UNCHANGED << timeVars, generatedImage, rateVars, batchVars, stressVars,
                    singleVars, enhVars, proxyVars >>

\* App.tsx:987-992
handleDeleteApiKey ==
    /\ userApiKey' = Null
    /\ error' = <<>>
    /\ UNCHANGED << timeVars, generatedImage, rateVars, batchVars, stressVars,
                    singleVars, enhVars, proxyVars >>

(***************************************************************************)
(* The proxy, functions/api/gemini.ts:50-64, and the request the client    *)
(* sends it, geminiService.ts:46-54.                                       *)
(***************************************************************************)

MaxKeyLen == 3             \* longest key of a request in SpecProxy

KeyChars == {" ", "a", "b"}

\* The keys a request may carry: null, and every string of up to MaxKeyLen
\* characters.
RequestKeys ==
    {Null} \cup UNION {[1..n -> KeyChars] : n \in 0..MaxKeyLen}

\* The keys without a character other than a space.
BlankKeys == {k \in RequestKeys : k # Null /\ trim(k) = <<>>}

(***************************************************************************)
(* The responses of the image service.  A response that is not ok has a    *)
(* body: JSON with error.message ("envelope", its text the message, <<>>   *)
(* when the message is empty), other JSON ("json"), or text that is not    *)
(* JSON ("raw", <<>> for the empty body).  A 200 response has a payload:   *)
(* its candidates, each with a finishReason and parts, and the top-level   *)
(* text, <<>> when undefined or empty.                                     *)
(***************************************************************************)

MaxParts == 2              \* parts of a candidate

ImagePart(data) == [kind |-> "inlineData", mimeType |-> "image/png", data |-> data]
TextPart == [kind |-> "text", mimeType |-> "", data |-> "refused"]

PartKinds == {ImagePart("A"), ImagePart("B"), TextPart}

Candidates ==
    [finishReason : {"STOP", "SAFETY"},
     parts : UNION {[1..n -> PartKinds] : n \in 0..MaxParts}]

ImageCandidate == [finishReason |-> "STOP", parts |-> << ImagePart("B") >>]

CandidateLists ==
    {<<>>} \cup {<< c >> : c \in Candidates}
           \cup {<< c, ImageCandidate >> : c \in Candidates}

NoPayload == [candidates |-> <<>>, text |-> <<>>]

Payloads == [candidates : CandidateLists, text : {<<>>, << "refused" >>}]

ErrorBodies ==
    { [kind |-> "envelope", text |-> << "Resource has been exhausted (e.g. check quota)." >>],
      [kind |-> "envelope", text |-> << "RESOURCE_EXHAUSTED", ": quota exceeded" >>],
      [kind |-> "envelope", text |-> << "API key not valid", ". Please pass a valid API key." >>],
      [kind |-> "envelope", text |-> <<>>],
      [kind |-> "json", text |-> <<>>],
      [kind |-> "raw", text |-> << "429", " Too Many Requests" >>],
      [kind |-> "raw", text |-> <<>>] }

UpstreamResponses ==
    { [status |-> 200, payload |-> p, body |-> [kind |-> "raw", text |-> <<>>]] :
          p \in Payloads }
    \cup [status : {400, 429, 500}, payload : {NoPayload}, body : ErrorBodies]

\* What generateTrendImage or enhanceImage ends in.
NoOutcome == [ok |-> FALSE, image |-> <<>>, err |-> NotAnError]
Returns(image) == [ok |-> TRUE, image |-> image, err |-> NotAnError]
Throws(e) == [ok |-> FALSE, image |-> <<>>, err |-> e]

\* gemini.ts:28
DefaultGoogleError == << "Loi khong xac dinh tu Google API." >>

\* handleGoogleError, gemini.ts:26-43: the error text sent on to the client.
handleGoogleError(response) ==
    IF response.body.text # <<>> /\ response.body.kind \in {"envelope", "raw"}
    THEN response.body.text
    ELSE DefaultGoogleError

\* response.status in a template string.
StatusText(status) ==
    CASE status = 400 -> "400"
      [] status = 429 -> "429"
      [] status = 500 -> "500"
      [] OTHER -> "200"

\* geminiService.ts:56-60: the Error thrown for a response that is not ok.
ResponseError(status, errorText) ==
    Err(IF errorText # <<>> THEN errorText
        ELSE << "Loi ", StatusText(status), ": ", "statusText" >>)

\* geminiService.ts:126
DefaultModelText == << "Khong nhan duoc phan hoi hop le tu mo hinh." >>

\* `data:${mimeType};base64,${data}`
DataUri(part) == << "data:", part.mimeType, ";base64,", part.data >>

\* The inline image parts of the first candidate, by position.
FirstImages(payload) ==
    IF payload.candidates = <<>> THEN {}
    ELSE {i \in 1..Len(payload.candidates[1].parts) :
              payload.candidates[1].parts[i].kind = "inlineData"}

\* A faulty normalisation that looks for an image before the finish reason.
NormaliseImageFirst(payload) ==
    IF FirstImages(payload) # {}
    THEN Returns(DataUri(payload.candidates[1].parts[MinOf(FirstImages(payload))]))
    ELSE IF payload.candidates # <<>> /\ payload.candidates[1].finishReason = "SAFETY"
    THEN Throws(Err(<< "SAFETY" >>))
    ELSE Throws(Err(<< "MODEL_ERROR: " >> \o
                    (IF payload.text # <<>> THEN payload.text ELSE DefaultModelText)))

\* geminiService.ts:112-127 and 152-167
NormaliseResponse(payload) ==
    IF payload.candidates # <<>> /\ payload.candidates[1].finishReason = "SAFETY"
    THEN Throws(Err(<< "SAFETY" >>))
    ELSE IF FirstImages(payload) # {}
    THEN Returns(DataUri(payload.candidates[1].parts[MinOf(FirstImages(payload))]))
    ELSE Throws(Err(<< "MODEL_ERROR: " >> \o
                    (IF payload.text # <<>> THEN payload.text ELSE DefaultModelText)))

\* env.API_KEY: not configured (Null), empty, or the server's default key.
EnvKeys == {Null, <<>>, << "d" >>}

\* calls lists the network calls made for the request: "proxy" is the fetch
\* of /api/gemini by the client, "upstream" the fetch of the image service by
\* the proxy; answer is the error text of the response, <<>> when none.
\* status is the HTTP status of the response to the client (0: none yet),
\* data the payload of a 200 response, outcome what generateTrendImage or
\* enhanceImage ended in.
ProxyIdle ==
    [pc |-> "idle", body |-> Null, env |-> Null, apiKey |-> Null,
     calls |-> <<>>, answer |-> <<>>, status |-> 0, data |-> NoPayload,
     outcome |-> NoOutcome]

\* One operation of the client of unnamed/part_002.
DirectIdle ==
    [pc |-> "idle", given |-> Null, apiKey |-> Null, calls |-> <<>>,
     thrown |-> <<>>]

\* gemini.ts:61
NoApiKeyAnswer == << "NO_API_KEY", ": API Key khong duoc cau hinh tren may chu." >>

\* userApiKey?.trim(), gemini.ts:57
TrimmedOrUndefined(userKey) ==
    IF userKey = Null THEN Null ELSE trim(userKey)

\* A faulty resolution that prefers the server's default key.
ResolveApiKeyDefaultFirst(userKey, envKey) ==
    IF Truthy(envKey) THEN envKey ELSE TrimmedOrUndefined(userKey)

\* gemini.ts:57: userApiKey?.trim() || env.API_KEY
ResolveApiKey(userKey, envKey) ==
    IF Truthy(TrimmedOrUndefined(userKey)) THEN TrimmedOrUndefined(userKey)
    ELSE envKey

\* geminiService.ts:48-54: the request body carries the key as given.
callGeminiApi(keys) ==
    /\ proxy.pc = "idle"
    /\ \E k \in keys : proxy' = [proxy EXCEPT !.pc = "sent", !.body = k,
                                              !.calls = << "proxy" >>,
                                              !.answer = <<>>]
    /\ direct' = DirectIdle
    /\ UNCHANGED << timeVars, keyVars, uiVars, rateVars, batchVars, stressVars,
                    singleVars, enhVars >>

\* A faulty proxy that goes upstream whether or not it has a key.
UpstreamCallsAlways(calls, apiKey) == Append(calls, "upstream")

\* gemini.ts:59-64: without a key the proxy returns before any fetch.
UpstreamCalls(calls, apiKey) ==
    IF Truthy(apiKey) THEN Append(calls, "upstream") ELSE calls

\* gemini.ts:53-64: the key is resolved; without one the answer is NO_API_KEY,
\* with one the request goes upstream under it.
onRequestPost ==
    /\ proxy.pc = "sent"
    /\ LET apiKey == ResolveApiKey(proxy.body, proxy.env) IN
        proxy' = [proxy EXCEPT !.pc = IF Truthy(apiKey) THEN "upstream" ELSE "no_api_key",
                               !.apiKey = apiKey,
                               !.calls = UpstreamCalls(proxy.calls, apiKey),
                               !.answer = IF Truthy(apiKey) THEN <<>>
                                          ELSE NoApiKeyAnswer,
                               !.status = IF Truthy(apiKey) THEN 0 ELSE 400]
    /\ UNCHANGED << timeVars, keyVars, uiVars, rateVars, batchVars, stressVars,
                    singleVars, enhVars, direct >>

\* The answer reaches the client; the next request may follow.
ProxyAnswered ==
    /\ proxy.pc \in {"upstream", "no_api_key"}
    /\ proxy' = [ProxyIdle EXCEPT !.env = proxy.env]
    /\ UNCHANGED << timeVars, keyVars, uiVars, rateVars, batchVars, stressVars,
                    singleVars, enhVars, direct >>

\* gemini.ts:88-107: the image service answers; an answer that is not ok goes
\* through handleGoogleError, an ok one is passed on with status 200.
UpstreamResponds(responses) ==
    /\ proxy.pc = "upstream"
    /\ \E response \in responses :
        proxy' = [proxy EXCEPT !.pc = "responded",
                               !.status = response.status,
                               !.answer = IF response.status = 200 THEN <<>>
                                          ELSE handleGoogleError(response),
                               !.data = response.payload]
    /\ UNCHANGED << timeVars, keyVars, uiVars, rateVars, batchVars, stressVars,
                    singleVars, enhVars, direct >>

\* geminiService.ts:56-62 and 110-127: the client has the response of the
\* proxy; generateTrendImage (enhanceImage, 150-167) returns or throws.
ClientReturns ==
    /\ proxy.pc \in {"responded", "no_api_key"}
    /\ proxy' = [proxy EXCEPT !.pc = "returned",
                              !.outcome =
                                  IF proxy.status = 200
                                  THEN NormaliseResponse(proxy.data)
                                  ELSE Throws(ResponseError(proxy.status,
                                                            proxy.answer))]
    /\ UNCHANGED << timeVars, keyVars, uiVars, rateVars, batchVars, stressVars,
                    singleVars, enhVars, direct >>

\* The operation is over; the next one may start.
NextRequest ==
    /\ proxy.pc = "returned"
    /\ proxy' = [ProxyIdle EXCEPT !.env = proxy.env]
    /\ UNCHANGED << timeVars, keyVars, uiVars, rateVars, batchVars, stressVars,
                    singleVars, enhVars, direct >>

(***************************************************************************)
(* The client that calls the image service through the SDK, without the    *)
(* proxy: unnamed/part_002.  App.tsx does not import it.                   *)
(***************************************************************************)

\* part_002:37-45
getApiKey(userKey) ==
    IF Truthy(userKey) /\ trim(userKey) # <<>>
    THEN [threw |-> FALSE, key |-> trim(userKey)]
    ELSE [threw |-> TRUE, key |-> Null]

\* part_002:79-87 and 120-131: generateTrendImage and enhanceImage get the key
\* first and call the image service only with one.  direct describes the
\* latest operation, until the next one starts.
DirectClientCall(keys) ==
    /\ proxy.pc = "idle"
    /\ \E k \in keys :
        direct' = IF getApiKey(k).threw
                  THEN [pc |-> "thrown", given |-> k, apiKey |-> Null,
                        calls |-> <<>>, thrown |-> << "NO_API_KEY" >>]
                  ELSE [pc |-> "called", given |-> k,
                        apiKey |-> getApiKey(k).key,
                        calls |-> << "upstream" >>, thrown |-> <<>>]
    /\ UNCHANGED << timeVars, keyVars, uiVars, rateVars, batchVars, stressVars,
                    singleVars, enhVars, proxy >>

(***************************************************************************)
(* The state after the component is mounted, App.tsx:273-342 and 310-325:  *)
(* the saved key, if any, is loaded; the quantity field holds a number.    *)
(***************************************************************************)

InitQuantities == {<< n >> : n \in MinQuantity..MaxQuantity}

\* App.tsx:310-314: the value found in localStorage is taken as the key when
\* it is truthy.
LoadSavedKey(stored) == IF Truthy(stored) THEN stored ELSE Null

InitKeys(quantities, envKeys, storedKeys) ==
    /\ now = 0
    /\ nextTick = TickIntervalMs
    /\ userApiKey \in {LoadSavedKey(k) : k \in storedKeys}
    /\ error = <<>>
    /\ generatedImage = <<>>
    /\ requestTimestamps = <<>>
    /\ requestCount = 0
    /\ rateLimitCooldown = 0
    /\ pushLog = <<>>
    /\ isBatchLoading = FALSE
    /\ batchResults = <<>>
    /\ batchProgress = 0
    /\ batch = BatchIdle
    /\ batchLog = <<>>
    /\ stressTestQuantity \in quantities
    /\ isStressTesting = FALSE
    /\ stressTestStage = "idle"
    /\ stressTestResults = <<>>
    /\ stress = StressIdle
    /\ stressLog = <<>>
    /\ isLoading = FALSE
    /\ single = SingleIdle
    /\ isEnhancing = FALSE
    /\ enh = EnhIdle
    /\ enhLog = <<>>
    /\ \E e \in envKeys : proxy = [ProxyIdle EXCEPT !.env = e]
    /\ direct = DirectIdle

InitWith(quantities, envKeys) == InitKeys(quantities, envKeys, SavedKeys)

Init == InitWith(InitQuantities, {Null})

\* No run of any feature is in flight.
Idle ==
    /\ batch.pc \notin {"delay", "call"}
    /\ stress.pc # "running"
    /\ single.pc \notin {"call", "settle"}
    /\ enh.pc \notin {"call1", "delay", "call2", "settle"}

Qualities == {"HD", "2K", "4K"}

\* The outcomes a call of a run is let have: an image, a quota failure, an
\* invalid key reported together with the status 429, a model error that
\* mentions the quota, a message translateApiError cannot split, and an
\* unknown failure.
RunErrors ==
    { Err(<< "RESOURCE_EXHAUSTED" >>),
      Err(<< "API key not valid", "429" >>),
      Err(<< "MODEL_ERROR: ", "HET HAN NGACH" >>),
      Err(<< "MODEL_ERROR:", "text" >>),
      Err(<< "text" >>) }

RunResponses == {Success} \cup {Failure(e) : e \in RunErrors}

(***************************************************************************)
(* Spec: the two runners.  The user works with one of them at a time; the  *)
(* key is the one found at mount.                                          *)
(***************************************************************************)

Next ==
    \/ Advance(MaxTime, {})
    \/ Tick
    \/ Idle /\ handleBatchGenerate(TaskLists, CallDurations)
    \/ BatchDelayElapsed(CallDurations)
    \/ BatchCallReturns(RunResponses)
    \/ Idle /\ handleGoBackToBatchEditing
    \/ Idle /\ handleStressTestQuantityChange(QuantityInputs)
    \/ Idle /\ handleStressTestGenerate
    \/ \E w \in Workers : WorkerDelayElapsed(w, CallDurations)
    \/ \E w \in Workers : WorkerCallReturns(w, RunResponses)

Spec == Init /\ [][Next]_vars

(***************************************************************************)
(* SpecEnhance: single generation followed by enhancement.                 *)
(***************************************************************************)

InitEnhance == InitWith({<< MinQuantity >>}, {Null})

NextEnhance ==
    \/ Advance(EnhanceHorizon, {})
    \/ Tick
    \/ handleGenerate
    \/ SingleCallReturns(Responses)
    \/ SingleSettle
    \/ handleGoBackToEditing
    \/ handleEnhance(Qualities)
    \/ EnhCallReturns(Responses)
    \/ EnhDelayElapsed
    \/ EnhSettle

SpecEnhance == InitEnhance /\ [][NextEnhance]_vars

(***************************************************************************)
(* SpecProgress: one long batch run, started at once, whose calls all take *)
(* the same time.  Without a key a call succeeds or fails on the quota;    *)
(* with a key every call succeeds.                                         *)
(***************************************************************************)

LongDurations == {400}

LongResponses ==
    IF Truthy(batch.key) THEN {Success}
    ELSE {Success, Failure(Err(<< "RESOURCE_EXHAUSTED" >>))}

NextProgress ==
    \/ Advance(LongHorizon, {})
    \/ Tick
    \/ now = 0 /\ handleBatchGenerate(LongTaskLists, LongDurations)
    \/ BatchDelayElapsed(LongDurations)
    \/ BatchCallReturns(LongResponses)
    \/ handleGoBackToBatchEditing

SpecProgress == InitEnhance /\ [][NextProgress]_vars

(***************************************************************************)
(* SpecRate: variation runs over more than one rate window.  The user      *)
(* starts a run only at the instants of RateStarts; the quantity is 1 or   *)
(* MaxRateQuantity; the calls of a run of several items all succeed.       *)
(***************************************************************************)

MaxRateQuantity == 44      \* quantity of the long run of SpecRate

RateStarts == {900, 10900, 65900}

RateDurations == {400}

RateResponses ==
    IF stress.n > 1 THEN {Success}
    ELSE {Success, Failure(Err(<< "RESOURCE_EXHAUSTED" >>))}

InitRate == InitWith({<< MinQuantity >>, << MaxRateQuantity >>}, {Null})

NextRate ==
    \/ Advance(RateHorizon, RateStarts)
    \/ Tick
    \/ now \in RateStarts /\ handleStressTestGenerate
    \/ \E w \in Workers : WorkerDelayElapsed(w, RateDurations)
    \/ \E w \in Workers : WorkerCallReturns(w, RateResponses)

SpecRate == InitRate /\ [][NextRate]_vars

(***************************************************************************)
(* SpecPool: variation runs with a pool of one worker or more, the calls   *)
(* taking different times, so that the workers finish in any order.        *)
(***************************************************************************)

MaxPool == 2             \* largest pool of workers
MaxPoolQuantity == 3     \* largest quantity of a run of SpecPool
PoolHorizon == 6100      \* SpecPool is explored up to this instant, in ms

PoolStarts == {0}

PoolResponses == {Success, Failure(Err(<< "text" >>))}

InitPool == InitWith({<< n >> : n \in MinQuantity..MaxPoolQuantity}, {Null})

NextPool ==
    \/ Advance(PoolHorizon, PoolStarts)
    \/ Tick
    \/ now \in PoolStarts /\ \E limit \in 1..MaxPool : StressStart(limit)
    \/ \E w \in 1..MaxPool : WorkerDelayElapsed(w, CallDurations)
    \/ \E w \in 1..MaxPool : WorkerCallReturns(w, PoolResponses)

SpecPool == InitPool /\ [][NextPool]_vars

(***************************************************************************)
(* SpecClassify: single generations whose call throws an Error with any    *)
(* message of up to MaxMessageLen pieces, each piece a marker searched for *)
(* by translateApiError or a piece of other text.                          *)
(***************************************************************************)

MaxMessageLen == 2         \* pieces of a thrown message
ClassifyHorizon == 2000    \* SpecClassify is explored up to this instant, in ms

MessageTokens ==
    { "API key not valid", "PERMISSION_DENIED", "RESOURCE_EXHAUSTED", "429",
      "SAFETY", "MODEL_ERROR: ", "MODEL_ERROR:", "I'm Sorry", "NO_API_KEY",
      "Failed to fetch", "NETWORK_ERROR", "{json}", "text" }

Messages ==
    UNION { [1..n -> MessageTokens] : n \in 0..MaxMessageLen }

ClassifyResponses == { Failure(Err(m)) : m \in Messages }

NextClassify ==
    \/ Advance(ClassifyHorizon, {})
    \/ Tick
    \/ handleGenerate
    \/ SingleCallReturns(ClassifyResponses)

SpecClassify == InitEnhance /\ [][NextClassify]_vars

(***************************************************************************)
(* SpecProxy: the saved key, the requests sent to the proxy and the key    *)
(* the proxy resolves.  A request carries the saved key or any other key;  *)
(* the client of part_002 is given the saved key or a blank one.           *)
(***************************************************************************)

InitProxy == InitWith({<< MinQuantity >>}, EnvKeys)

NextProxy ==
    \/ handleSaveApiKey(RequestKeys)
    \/ handleDeleteApiKey
    \/ callGeminiApi(RequestKeys \cup {userApiKey})
    \/ onRequestPost
    \/ ProxyAnswered
    \/ DirectClientCall(BlankKeys \cup {userApiKey})

SpecProxy == InitProxy /\ [][NextProxy]_vars

(***************************************************************************)
(* SpecClient: one call after the other from the client through the proxy  *)
(* to the image service and back.  localStorage holds no key or any key of *)
(* up to two characters, a blank one included.                             *)
(***************************************************************************)

StoredKeys == {k \in RequestKeys : k = Null \/ Len(k) <= 2}

InitClient == InitKeys({<< MinQuantity >>}, EnvKeys, StoredKeys)

NextClient ==
    \/ callGeminiApi({userApiKey})
    \/ onRequestPost
    \/ UpstreamResponds(UpstreamResponses)
    \/ ClientReturns
    \/ NextRequest

SpecClient == InitClient /\ [][NextClient]_vars

(***************************************************************************)
(* Properties.                                                             *)
(***************************************************************************)

Terminal == {"success", "error"}

\* The status recorded for the batch task taskId; "none" when it has no result.
BatchStatus(taskId) ==
    LET ks == {k \in 1..Len(batchResults) : batchResults[k].taskId = taskId} IN
    IF ks = {} THEN "none" ELSE batchResults[CHOOSE k \in ks : TRUE].status

\* translateApiError classifies err as quota exhaustion.
QuotaClassified(err, key) ==
    /\ ~translateApiError(err, Truthy(key)).threw
    /\ IsQuotaMessage(translateApiError(err, Truthy(key)).text)

\* C1: the batch run dispatches its tasks in the order of the task list, one
\* dispatch per task and none skipped, and while the run is in flight every
\* task dispatched before the latest one has ended in success or error.
C1_StrictOrder ==
    /\ Len(batchLog) <= Len(batch.tasks)
    /\ \A j \in 1..Len(batchLog) : batchLog[j].taskId = batch.tasks[j]
    /\ batch.pc \in {"call", "delay"} =>
          \A j \in 1..(Len(batchLog) - 1) : BatchStatus(batch.tasks[j]) \in Terminal

C1_Witness ==
    /\ batch.pc = "call"
    /\ batch.tasks = << 0, 1 >>
    /\ Len(batchLog) = 2
    /\ BatchStatus(0) = "error"
    /\ BatchStatus(1) = "loading"

\* C2: in a batch run the percentage never decreases, and it is 100 exactly
\* when the run has ended with its last task, never while a task is pending.
C2_FullOnlyAtEnd ==
    [][ /\ (batch.pc \in {"call", "delay"} /\ batch'.pc \in {"call", "delay", "done"})
            => batchProgress' >= batchProgress
        /\ batchProgress' = 100 <=> batch'.pc = "done" ]_vars

\* C3: when a call of a batch run started without a user key fails with an
\* error classified as quota exhaustion, that step empties the results, sets
\* the run-level error, clears the loading flag and ends the run; a run ended
\* so has dispatched nothing after the failed task.
C3_QuotaAbort ==
    [][ /\ ( /\ batch.pc = "call"
             /\ batch'.pc # "call"
             /\ ~batch'.last.ok
             /\ QuotaClassified(batch'.last.err, batch.key)
             /\ ~Truthy(batch.key) )
            => ( /\ batchResults' = <<>>
                 /\ error' = MsgQuotaShared
                 /\ ~isBatchLoading'
                 /\ batch'.pc = "aborted" )
        /\ batch'.pc = "aborted"
            => ( /\ Len(batchLog') = batch'.i + 1
                 /\ batchLog'[Len(batchLog')].taskId = batch'.tasks[batch'.i + 1] ) ]_vars

C3_Witness ==
    /\ batch.pc = "aborted"
    /\ batch.i = 1
    /\ Len(batch.tasks) = 2
    /\ batchResults = <<>>
    /\ error = MsgQuotaShared
    /\ ~isBatchLoading

\* C4: a variation run has no abort path: a run that is over has dispatched
\* every one of its items.
C4_NoAbortPath ==
    stress.pc \in {"done", "failed"} => Len(stressLog) = stress.n

\* C5: whenever a call of a variation run fails with an error classified as
\* quota exhaustion, that step sets the cooldown to 60, with or without a key.
C5_CooldownOnQuota ==
    [][ ( /\ \E w \in Workers : stress.worker[w].pc = "call" /\ stress'.worker[w].pc # "call"
          /\ ~stress'.last.r.ok
          /\ QuotaClassified(stress'.last.r.err, stress.key) )
        => rateLimitCooldown' = 60 ]_vars

\* C7: the step that ends a successful 4K enhancement has seen exactly two
\* calls of enhanceImage: the first made at once, the second 1.1 s or more
\* after the first returned and given the first call's output; the image shown
\* is the second call's output.
C7_TwoCallsOneDelay ==
    [][ (enh.pc = "settle" /\ enh'.pc = "done" /\ enh.quality = "4K")
        => ( /\ Len(enhLog') = 2
             /\ enhLog'[1].waited = 0
             /\ enhLog'[2].waited >= 1100
             /\ enhLog'[2].input = enhLog'[1].output
             /\ generatedImage' = enhLog'[2].output ) ]_vars

C7_Witness ==
    /\ enh.pc = "done"
    /\ enh.quality = "4K"
    /\ Len(enhLog) = 2
    /\ enhLog[2].waited = 1100
    /\ generatedImage = Enhanced(Enhanced(GeneratedOnce))
    /\ generatedImage = enhLog[2].output

\* C7 as stated: each of the two calls is preceded by the 1.1 s delay.
C7_EachCallDelayed ==
    [][ (enh.pc = "settle" /\ enh'.pc = "done" /\ enh.quality = "4K")
        => ( /\ Len(enhLog') = 2
             /\ \A j \in 1..2 : enhLog'[j].waited >= 1100
             /\ enhLog'[2].input = enhLog'[1].output
             /\ generatedImage' = enhLog'[2].output ) ]_vars

\* The requests recorded so far that are younger than 60 s at time t.
Younger(t) == {i \in 1..Len(pushLog) : pushLog[i] > t - 60000}

\* The example: requests recorded at 0 s, 10 s and 65 s after the first one,
\* read after the timer has run at 66 s.
ExamplePushes == << 2000, 12000, 67000 >>

ExampleRead ==
    /\ pushLog = ExamplePushes
    /\ now = ExamplePushes[1] + 66000
    /\ nextTick > now

\* C8: each run of the timer sets the count to the number of requests recorded
\* less than 60 s before, the value shown is 60 minus that count, with the
\* pool of one worker it is never negative, and in the example it is 58.
C8_Remaining ==
    [][ /\ nextTick' # nextTick =>
              /\ requestCount' = Cardinality(Younger(now))
              /\ RemainingShown' = 60 - Cardinality(Younger(now))
        /\ RemainingShown' >= 0
        /\ (pushLog' = ExamplePushes /\ now' = ExamplePushes[1] + 66000 /\ nextTick' > now')
              => RemainingShown' = 58 ]_vars

C8_Witness ==
    /\ ExampleRead
    /\ Len(requestTimestamps) = 2
    /\ RemainingShown = 58

\* C8 as stated: the value shown is never negative and in the example it is 59.
C8_Example59 ==
    /\ RemainingShown >= 0
    /\ ExampleRead => RemainingShown = 59

\* C9: once the proxy has resolved the key of a request: if the request's key
\* has a character other than a space, the request goes upstream under that
\* key without the spaces around it, whatever the server's default; otherwise
\* the server's default is the key, and the request goes upstream only if
\* there is one.
C9_UserKeyFirst ==
    proxy.pc \in {"upstream", "no_api_key"} =>
        LET body == proxy.body
            solid == IF body = Null THEN {}
                     ELSE {i \in 1..Len(body) : body[i] # " "}
        IN  IF solid # {}
            THEN /\ proxy.pc = "upstream"
                 /\ proxy.apiKey =
                       SubSeq(body, MinOf(solid),
                              CHOOSE m \in solid : \A i \in solid : i <= m)
            ELSE /\ proxy.apiKey = proxy.env
                 /\ proxy.pc = "upstream" <=> proxy.env \notin {Null, <<>>}

C9_Witness ==
    /\ proxy.pc = "upstream"
    /\ proxy.body = << " ", "a", " " >>
    /\ proxy.env = << "d" >>
    /\ proxy.apiKey = << "a" >>

\* C10: in a batch run every dispatch but the first comes 1.1 s or more after
\* the previous call returned, and the first comes at once; in a variation
\* run every dispatch comes 1.1 s or more after its item was taken; two
\* consecutive dispatches of a run are 1.1 s or more apart.
C10_Paced ==
    /\ \A j \in 1..Len(batchLog) :
          IF j = 1 THEN batchLog[j].waited = 0
          ELSE /\ batchLog[j].waited >= 1100
               /\ batchLog[j].at - batchLog[j - 1].at >= 1100
    /\ \A j \in 1..Len(stressLog) :
          /\ stressLog[j].waited >= 1100
          /\ j > 1 => stressLog[j].at - stressLog[j - 1].at >= 1100

C10_Witness ==
    /\ Len(batchLog) = 2
    /\ batchLog[2].waited = 1100
    /\ Len(stressLog) >= 1
    /\ stressLog[1].waited = 1100

C12_NoStartInCooldown ==
    [][ rateLimitCooldown > 0 =>
            /\ ~(~isBatchLoading /\ isBatchLoading')
            /\ ~(~isStressTesting /\ isStressTesting') ]_vars

\* The markers of App.tsx:33 and App.tsx:38.
HasInvalidKeyMarker(message) ==
    includes(message, "API key not valid") \/ includes(message, "PERMISSION_DENIED")

HasQuotaMarker(message) ==
    includes(message, "RESOURCE_EXHAUSTED") \/ includes(message, "429")

\* C13: when a generation has failed with an Error, a message with an
\* invalid-key marker is shown as the invalid-key message whatever else it
\* holds, and a message with a quota marker and no invalid-key marker is shown
\* as the quota message of the kind of key in use (so never as the safety,
\* refusal, missing-key, network or unknown message); neither makes the
\* classifier throw.
C13_Priority ==
    ( /\ single.pc \in {"failed", "crashed"}
      /\ single.last.err.isError ) =>
        LET message == single.last.err.message IN
        /\ HasInvalidKeyMarker(message) =>
              single.pc = "failed" /\ error = MsgInvalidKey
        /\ (HasQuotaMarker(message) /\ ~HasInvalidKeyMarker(message)) =>
              /\ single.pc = "failed"
              /\ error = IF Truthy(single.key) THEN MsgQuotaUserKey
                         ELSE MsgQuotaShared

\* A message with a quota marker before an invalid-key marker.
C13_Witness ==
    /\ single.pc = "failed"
    /\ single.last.err = Err(<< "RESOURCE_EXHAUSTED", "PERMISSION_DENIED" >>)
    /\ error = MsgInvalidKey

\* C14: when a call of a batch run fails and the failure is not the quota
\* failure without a user key, the result of that task becomes an error with a
\* message, no other result changes, and the run goes on to the next task (or
\* ends, after the last one).
C14_FailureIsolated ==
    [][ ( /\ batch.pc = "call"
          /\ batch'.pc # "call"
          /\ ~batch'.last.ok
          /\ Truthy(batch.key) \/ ~QuotaClassified(batch'.last.err, batch.key) ) =>
        ( /\ Len(batchResults') = Len(batchResults)
          /\ \A k \in 1..Len(batchResults) :
                IF batchResults[k].taskId = batch.tasks[batch.i + 1]
                THEN /\ batchResults'[k].status = "error"
                     /\ batchResults'[k].error # <<>>
                ELSE batchResults'[k] = batchResults[k]
          /\ batch'.pc = IF batch.i + 1 < Len(batch.tasks) THEN "delay"
                         ELSE "done" ) ]_vars

\* C15: no exception leaves the catch block of a runner, a batch run that is
\* over without the quota abort has dispatched all its tasks, and a variation
\* run that is over has taken every item off its queue.
C15_NoExceptionEscapes ==
    /\ batch.pc # "crashed"
    /\ \A w \in DOMAIN stress.worker : stress.worker[w].pc # "crashed"
    /\ (batch.pc \notin {"idle", "call", "delay", "aborted"}) =>
            Len(batchLog) = Len(batch.tasks)
    /\ (stress.pc \notin {"idle", "running"}) => stress.queue = 0

\* C20: once a variation run is no longer marked as running, every worker has
\* left its loop, the queue is empty and each of the N results is a success
\* or an error.
C20_EndsComplete ==
    (~isStressTesting /\ stress.pc # "idle") =>
        /\ AllExited(stress)
        /\ stress.queue = 0
        /\ Len(stressTestResults) = stress.n
        /\ \A k \in 1..Len(stressTestResults) :
              stressTestResults[k].status \in Terminal

\* C16: a request without a user key (none, or only spaces) to a proxy
\* without a default key is answered NO_API_KEY, which the client shows as the
\* missing-key message; the client has made its one call to the proxy and the
\* proxy has made no call upstream.  A request for which the proxy has a key
\* goes upstream.  The client that uses the SDK itself throws NO_API_KEY
\* without any call exactly when it is given no user key.
C16_NoKeyNoUpstream ==
    /\ proxy.pc \in {"upstream", "no_api_key"} =>
          LET noUser == proxy.body = Null \/ \A i \in 1..Len(proxy.body) :
                                                proxy.body[i] = " "
              noDefault == proxy.env \in {Null, <<>>}
          IN  IF noUser /\ noDefault
              THEN /\ proxy.pc = "no_api_key"
                   /\ proxy.calls = << "proxy" >>
                   /\ includes(proxy.answer, "NO_API_KEY")
                   /\ translateApiError(Err(proxy.answer), FALSE)
                          = Returned(MsgNoApiKey)
              ELSE /\ proxy.pc = "upstream"
                   /\ proxy.calls = << "proxy", "upstream" >>
                   /\ proxy.answer = <<>>
    /\ direct.pc # "idle" =>
          LET noUser == direct.given = Null \/ \A i \in 1..Len(direct.given) :
                                                  direct.given[i] = " "
          IN  IF noUser
              THEN /\ direct.pc = "thrown"
                   /\ direct.calls = <<>>
                   /\ direct.thrown = << "NO_API_KEY" >>
              ELSE /\ direct.pc = "called"
                   /\ direct.calls = << "upstream" >>

\* A key of spaces only, and a default key that is the empty string.
C16_Witness ==
    /\ proxy.pc = "no_api_key"
    /\ proxy.body = << " ", " " >>
    /\ proxy.env = <<>>
    /\ proxy.calls = << "proxy" >>

\* C16 as stated: when the request has ended in NO_API_KEY the client has made
\* no network call at all.
C16_NoCallAtAll ==
    /\ proxy.pc = "no_api_key" => proxy.calls = <<>>
    /\ direct.pc = "thrown" => direct.calls = <<>>

\* C17: right after each run of the timer every retained timestamp is younger
\* than 60 s and the count equals the number of requests recorded in the
\* trailing 60 s; between two runs of the timer the count does not change,
\* whatever is recorded, and a retained timestamp is younger than 61 s.
C17_FreshAfterTick ==
    [][ /\ nextTick' # nextTick =>
              /\ \A i \in 1..Len(requestTimestamps') :
                    now - requestTimestamps'[i] < WindowMs
              /\ requestCount' = Len(requestTimestamps')
              /\ requestCount' = Cardinality(Younger(now))
        /\ nextTick' = nextTick => requestCount' = requestCount
        /\ \A i \in 1..Len(requestTimestamps') :
              now' - requestTimestamps'[i] < WindowMs + TickIntervalMs ]_vars

\* Between two runs of the timer: a retained timestamp that is 60 s old, and
\* a count that is one more than the requests of the trailing 60 s.
C17_Witness ==
    /\ requestTimestamps # <<>>
    /\ now - requestTimestamps[1] = WindowMs
    /\ requestCount = Cardinality(Younger(now)) + 1

\* C17 as stated: in every state every retained timestamp is younger than 60 s
\* and the count is the number of requests recorded in the trailing 60 s.
C17_FreshAtEveryRead ==
    /\ \A i \in 1..Len(requestTimestamps) : now - requestTimestamps[i] < WindowMs
    /\ requestCount = Cardinality(Younger(now))

\* C18: the cooldown is always in 0..60; a run of the timer takes 1 off it
\* when it is positive and leaves it at 0; no other step changes it except to
\* set it to 60; and as long as the latest call that came back is the quota
\* failure that set it, it is 60 less the runs of the timer since then, 0 from
\* the 60th run on.
C18_Countdown ==
    [][ /\ rateLimitCooldown' \in 0..CooldownSeconds
        /\ nextTick' # nextTick =>
              rateLimitCooldown' = IF rateLimitCooldown > 0
                                   THEN rateLimitCooldown - 1 ELSE 0
        /\ nextTick' = nextTick =>
              rateLimitCooldown' \in {rateLimitCooldown, CooldownSeconds}
        /\ ( /\ ~stress'.last.r.ok
             /\ TriggersCooldown(translateApiError(stress'.last.r.err,
                                                   Truthy(stress'.key)).text) ) =>
              LET ticks == (nextTick' - stress'.last.tick) \div TickIntervalMs IN
              rateLimitCooldown' = IF ticks >= 60 THEN 0 ELSE 60 - ticks ]_vars

\* The timer has run 60 times since the quota failure set the cooldown.
C18_Witness ==
    /\ ~stress.last.r.ok
    /\ Truthy(stress.key)
    /\ nextTick - stress.last.tick = 60 * TickIntervalMs
    /\ rateLimitCooldown = 0

C21_AbortIffQuotaClassified ==
    [][ ( /\ batch.pc = "call"
          /\ batch'.pc # "call"
          /\ ~batch'.last.ok ) =>
        /\ batch'.pc = "aborted" <=>
              ( /\ QuotaClassified(batch'.last.err, batch.key)
                /\ ~Truthy(batch.key) )
        /\ batch'.pc = "aborted" => IsQuotaMessage(error') ]_vars

\* C22: every dispatch of a batch run or of a variation run appends the
\* current time to the rate window.
C22_EveryDispatchRecorded ==
    [][ ( \/ Len(batchLog') = Len(batchLog) + 1
          \/ batchLog' # batchLog /\ Len(batchLog') = 1
          \/ Len(stressLog') = Len(stressLog) + 1 ) =>
        /\ requestTimestamps' = Append(requestTimestamps, now)
        /\ pushLog' = Append(pushLog, now) ]_vars

\* C24: translateApiError never throws for the failure of a generation, and
\* a generation that has failed shows a message that is not empty.
C24_Total ==
    /\ single.pc # "crashed"
    /\ single.pc = "failed" => error # <<>>

\* C25: a step of a variation run sets the cooldown only when the call that
\* came back failed with an error classified as quota exhaustion.
C25_CooldownOnlyOnQuota ==
    [][ ( /\ nextTick' = nextTick
          /\ rateLimitCooldown' # rateLimitCooldown ) =>
        /\ ~stress'.last.r.ok
        /\ QuotaClassified(stress'.last.r.err, stress.key) ]_vars

\* C29: whenever no call and no delay of a batch run is pending the loading
\* flag is cleared; after the last task every result is success or error and
\* the progress is complete; after the abort there is no result.
C29_BatchTerminates ==
    batch.pc \notin {"call", "delay"} =>
        /\ ~isBatchLoading
        /\ batch.pc = "done" =>
              /\ \A k \in 1..Len(batchResults) : batchResults[k].status \in Terminal
              /\ batchProgress = 100
        /\ batch.pc = "aborted" => batchResults = <<>>

\* C30: the step in which a call of a 4K enhancement fails issues no further
\* call, leaves the image shown as it is, sets a classified error message and
\* clears the enhancing flag, and the enhancement is over; when it is the
\* first call that fails only one call has been made.
C30_FailedEnhancement ==
    [][ ( /\ enh.quality = "4K"
          /\ enh.pc \in {"call1", "call2"}
          /\ enh'.pc \notin {"call1", "call2", "delay", "settle"} ) =>
        /\ enh'.pc = "failed"
        /\ enhLog' = enhLog
        /\ enh.pc = "call1" => Len(enhLog) = 1
        /\ generatedImage' = generatedImage
        /\ error' # <<>>
        /\ ~isEnhancing' ]_vars

\* C26: a variation run in flight has as many items as the quantity field
\* says, clamped to 1..60; no item is dispatched twice; and once the run is
\* over every item has been dispatched exactly once.
C26_EachItemOnce ==
    /\ stress.pc = "running" =>
          stress.n = clamp(NumberOf(stressTestQuantity), MinQuantity, QuantityLimit)
    /\ \A i, j \in 1..Len(stressLog) :
          stressLog[i].index = stressLog[j].index => i = j
    /\ stress.pc \notin {"idle", "running"} =>
          \A p \in 0..(stress.n - 1) :
              Cardinality({j \in 1..Len(stressLog) : stressLog[j].index = p}) = 1

C27_Status429IsQuota ==
    ( /\ proxy.pc = "returned"
      /\ proxy.status = 429 ) =>
        LET err == proxy.outcome.err IN
        /\ ~proxy.outcome.ok
        /\ QuotaClassified(err, userApiKey)
        /\ ~Truthy(userApiKey) => AbortsRun(err, userApiKey)
        /\ TriggersCooldown(translateApiError(err, Truthy(userApiKey)).text)

\* C28: when the client holds a user key (the flag !!userApiKey is true), the
\* proxy resolves the key of the request to that user key, trimmed, and the
\* request goes upstream under it.
C28_FlagAgreesWithProxy ==
    ( /\ Truthy(userApiKey)
      /\ proxy.pc \in {"upstream", "no_api_key"} ) =>
        /\ proxy.pc = "upstream"
        /\ proxy.apiKey = trim(userApiKey)

====
